---- MODULE Spec2Model ----
(***************************************************************************)
(* lib_django_exception: the exception handler that turns a raised failure *)
(* into one error envelope (handler.py), the failure classes of the        *)
(* library (exceptions.py) and the locale switch of translate_text         *)
(* (utils.py).                                                             *)
(*                                                                         *)
(* Texts that the code splits, joins or searches (keys, attr, detail) are  *)
(* sequences of one-character strings; codes and types, which the code     *)
(* only compares, are strings.                                             *)
(***************************************************************************)
EXTENDS Integers, Sequences, FiniteSets, TLC

VARIABLES
    settings,        \* api_settings / django settings read by the handler
    language,        \* the active locale (django.utils.translation)
    exc,             \* the failure the handler works on
    raised,          \* the failure as it was handed to the handler
    pc,              \* position in the handler
    exception_list,  \* handler.py local: the (code, key) pairs
    frame,           \* handler.py locals: exception_code, exception_key, attr, detail, translated_attr
    hook_calls,      \* number of calls of api_settings.EXCEPTION_REPORTING
    hook_failed,     \* the reporting hook raised when called
    lookup_failed,   \* a gettext lookup raised while the locale was switched
    entry_language,  \* the locale that was active when the failure was raised
    signal_sent,     \* got_request_exception.send was called
    result           \* what exception_handler gave back

vars == <<settings, language, exc, raised, pc, exception_list, frame, hook_calls,
          hook_failed, lookup_failed, entry_language, signal_sent, result>>

----------------------------------------------------------------------------
(* Bounds of the explored inputs *)

MaxDepth == 2
MaxLen == 2

----------------------------------------------------------------------------
(* Texts *)

DEFAULT_ERROR_DETAIL == <<"A", " ", "s", "e", "r", "v", "e", "r", " ", "e", "r", "r", "o", "r", " ", "o", "c", "c", "u", "r", "r", "e", "d", ".">>
UNIQUE_SET_PHRASE == <<"m", "u", "s", "t", " ", "m", "a", "k", "e", " ", "a", " ", "u", "n", "i", "q", "u", "e", " ", "s", "e", "t">>
ALL_KEY == <<"_", "_", "a", "l", "l", "_", "_">>
NON_FIELD_ERRORS_KEY == <<"n", "o", "n", "_", "f", "i", "e", "l", "d", "_", "e", "r", "r", "o", "r", "s">>
DETAIL_FIELD == <<"d", "e", "t", "a", "i", "l">>
FA_DETAIL_FIELD == <<"f", "a", "_", "d", "e", "t", "a", "i", "l">>
DUNDER == <<"_", "_">>
DOT == <<".">>
SPACE == <<" ">>
form == <<"f", "o", "r", "m">>
password == <<"p", "a", "s", "s", "w", "o", "r", "d">>
email == <<"e", "m", "a", "i", "l">>

MSG_invalid == <<"I", "n", "v", "a", "l", "i", "d", " ", "i", "n", "p", "u", "t", ".">>
MSG_required == <<"T", "h", "i", "s", " ", "f", "i", "e", "l", "d", " ", "i", "s", " ", "r", "e", "q", "u", "i", "r", "e", "d", ".">>
MSG_unique == <<"T", "h", "e", " ", "f", "i", "e", "l", "d", "s", " ", "a", ",", " ", "b", " ", "m", "u", "s", "t", " ", "m", "a", "k", "e", " ", "a", " ", "u", "n", "i", "q", "u", "e", " ", "s", "e", "t", ".">>
MSG_not_found == <<"N", "o", "t", " ", "f", "o", "u", "n", "d", ".">>
MSG_denied == <<"Y", "o", "u", " ", "d", "o", " ", "n", "o", "t", " ", "h", "a", "v", "e", " ", "p", "e", "r", "m", "i", "s", "s", "i", "o", "n", " ", "t", "o", " ", "p", "e", "r", "f", "o", "r", "m", " ", "t", "h", "i", "s", " ", "a", "c", "t", "i", "o", "n", ".">>
MSG_protected == <<"R", "e", "q", "u", "e", "s", "t", "e", "d", " ", "o", "p", "e", "r", "a", "t", "i", "o", "n", " ", "c", "a", "n", "n", "o", "t", " ", "b", "e", " ", "c", "o", "m", "p", "l", "e", "t", "e", "d", " ", "b", "e", "c", "a", "u", "s", "e", " ", "a", " ", "r", "e", "l", "a", "t", "e", "d", " ", "o", "b", "j", "e", "c", "t", " ", "i", "s", " ", "p", "r", "o", "t", "e", "c", "t", "e", "d", ".">>
MSG_custom == <<"b", "o", "o", "m">>
\* a unique-together message without its leading article
MSG_unique_short == <<"f", "i", "e", "l", "d", "s", " ", "a", ",", " ", "b", " ", "m", "u", "s", "t", " ", "m", "a", "k", "e", " ", "a", " ", "u", "n", "i", "q", "u", "e", " ", "s", "e", "t", ".">>

\* str(n) of a non-negative integer
RECURSIVE IntToText(_)
IntToText(n) ==
    LET digit == <<"0", "1", "2", "3", "4", "5", "6", "7", "8", "9">>
    IN  IF n < 10 THEN <<digit[n + 1]>> ELSE IntToText(n \div 10) \o <<digit[(n % 10) + 1]>>

\* needle in text
Contains(text, needle) ==
    \E i \in 1..(Len(text) - Len(needle) + 1) :
        SubSeq(text, i, i + Len(needle) - 1) = needle

\* text.split(sep): left to right, non-overlapping, empty pieces kept
RECURSIVE Split(_, _)
Split(text, sep) ==
    LET hits == {i \in 1..(Len(text) - Len(sep) + 1) : SubSeq(text, i, i + Len(sep) - 1) = sep}
    IN  IF hits = {} THEN <<text>>
        ELSE LET i == CHOOSE j \in hits : \A k \in hits : j <= k
             IN  <<SubSeq(text, 1, i - 1)>> \o Split(SubSeq(text, i + Len(sep), Len(text)), sep)

\* sep.join(parts)
RECURSIVE Join(_, _)
Join(sep, parts) ==
    IF parts = <<>> THEN <<>>
    ELSE IF Len(parts) = 1 THEN parts[1]
    ELSE parts[1] \o sep \o Join(sep, Tail(parts))

\* Optional[str]
None == [some |-> FALSE, v |-> <<>>, isint |-> FALSE]
Some(text) == [some |-> TRUE, v |-> text, isint |-> FALSE]
SomeInt(n) == [some |-> TRUE, v |-> IntToText(n), isint |-> TRUE]

----------------------------------------------------------------------------
(* Error trees: ErrorDetail leaves, lists and insertion-ordered dicts *)

StrKey(s) == [int |-> FALSE, s |-> s, n |-> 0]
IntKey(n) == [int |-> TRUE, s |-> <<>>, n |-> n]

Absent == [t |-> "absent", code |-> "", msg |-> <<>>, keys |-> <<>>, vals |-> <<>>]
NoneNode == [t |-> "none", code |-> "", msg |-> <<>>, keys |-> <<>>, vals |-> <<>>]
Leaf(c, m) == [t |-> "leaf", code |-> c, msg |-> m, keys |-> <<>>, vals |-> <<>>]
List(items) == [t |-> "list", code |-> "", msg |-> <<>>, keys |-> <<>>, vals |-> items]
Map(ks, vs) == [t |-> "map", code |-> "", msg |-> <<>>, keys |-> ks, vals |-> vs]

HasKey(m, k) == \E i \in 1..Len(m.keys) : m.keys[i] = k
ValueAt(m, k) == m.vals[CHOOSE i \in 1..Len(m.keys) : m.keys[i] = k]

\* str() / force_str() of a value that is not a string: its repr, kept abstract
ReprCode(node) == IF node.t = "map" THEN "{...}" ELSE IF node.t = "list" THEN "[...]" ELSE "None"
ReprText(node) == <<ReprCode(node)>>

\* str(x) where x is a code or a container of codes
StrOfCode(node) == IF node.t = "leaf" THEN node.code ELSE ReprCode(node)
\* force_str(x) where x is an ErrorDetail or a container of them
StrOfDetail(node) == IF node.t = "leaf" THEN node.msg ELSE ReprText(node)

\* bool(x)
Truthy(node) ==
    CASE node.t = "leaf" -> node.code # ""
      [] node.t = "list" -> node.vals # <<>>
      [] node.t = "map" -> node.keys # <<>>
      [] node.t = "entry" -> TRUE
      [] OTHER -> FALSE

----------------------------------------------------------------------------
(* Failure classes *)

DRFClasses == {"APIException", "AuthenticationFailed", "MethodNotAllowed", "NotAcceptable",
               "NotAuthenticated", "NotFound", "ParseError", "PermissionDenied", "Throttled",
               "UnsupportedMediaType", "ValidationError"}
LibClasses == {"CustomValidationError", "ProtectedObjectException"}
DjangoClasses == {"Http404", "DjangoPermissionDenied", "ProtectedError", "DjangoValidationError"}
PythonClasses == {"Exception"}

\* isinstance(exc, exceptions.APIException): the framework's classes and the
\* library's ValidationError copy, which derives from APIException
IsAPIException(cls) == cls \in DRFClasses \cup {"CustomValidationError"}

\* isinstance(exc, exceptions.ValidationError): the framework's class only
IsDRFValidationError(cls) == cls = "ValidationError"

\* hasattr(exc, "get_codes"): APIException.get_codes and ExceptionClass.get_codes
HasGetCodes(cls) == IsAPIException(cls) \/ cls = "ProtectedObjectException"

\* APIException.get_codes: the detail with every ErrorDetail replaced by its code
RECURSIVE _get_codes(_)
_get_codes(detail) ==
    CASE detail.t = "leaf" -> Leaf(detail.code, <<>>)
      [] detail.t = "list" -> List([i \in 1..Len(detail.vals) |-> _get_codes(detail.vals[i])])
      [] detail.t = "map" -> Map(detail.keys, [i \in 1..Len(detail.vals) |-> _get_codes(detail.vals[i])])
      [] OTHER -> detail

\* ExceptionClass.get_codes: the instance's code, else the class's default_code, else None
ExceptionClass_get_codes(e) ==
    IF e.code # "" THEN Leaf(e.code, <<>>)
    ELSE IF e.default_code # "" THEN Leaf(e.default_code, <<>>)
    ELSE NoneNode

get_codes(e) ==
    IF e.cls = "ProtectedObjectException" THEN ExceptionClass_get_codes(e) ELSE _get_codes(e.detail)

----------------------------------------------------------------------------
(* handler.py: the pure parts *)

\* the first dict of a list, as the loop of lines 107-110 finds it
HasDict(node) == \E i \in 1..Len(node.vals) : node.vals[i].t = "map"
FirstDict(node) ==
    node.vals[CHOOSE i \in 1..Len(node.vals) :
                 /\ node.vals[i].t = "map"
                 /\ \A j \in 1..(i - 1) : node.vals[j].t # "map"]

Entry(keys, code) == [t |-> "entry", parsed_keys |-> keys, exception_code |-> code]

RECURSIVE _normalize_exception_codes(_, _)
_normalize_exception_codes(exception_codes, parent_key) ==
    LET n == Len(exception_codes.keys)
        one(i) ==
            LET keys == parent_key \o <<exception_codes.keys[i]>>
                value == exception_codes.vals[i]
                exception_code ==
                    IF value.t = "list" /\ n >= 1 /\ HasDict(value) THEN FirstDict(value) ELSE value
            IN  IF exception_code.t = "map"
                THEN _normalize_exception_codes(exception_code, keys)
                ELSE <<Entry(keys, exception_code)>>
        items[i \in 0..n] == IF i = 0 THEN <<>> ELSE items[i - 1] \o one(i)
    IN  items[n]

\* override_or_return of _get_main_exception_and_code
override_or_return_code(code) == IF code = "invalid" THEN "invalid_input" ELSE code

NoKey == [kind |-> "none", keys |-> <<>>]
OneKey(k) == [kind |-> "key", keys |-> <<k>>]
KeyList(ks) == [kind |-> "list", keys |-> ks]

Pair(code, key) == [err |-> "", code |-> code, key |-> key]
Raise(e) == [err |-> e, code |-> "", key |-> NoKey]

\* x[0] for a list or a dict x
Subscript0(node) ==
    CASE node.t = "list" ->
            IF node.vals = <<>> THEN [err |-> "IndexError", v |-> NoneNode]
            ELSE [err |-> "", v |-> node.vals[1]]
      [] node.t = "map" ->
            IF HasKey(node, IntKey(0)) THEN [err |-> "", v |-> ValueAt(node, IntKey(0))]
            ELSE [err |-> "KeyError", v |-> NoneNode]
      [] OTHER -> [err |-> "TypeError", v |-> NoneNode]

_get_main_exception_and_code(exception_codes) ==
    IF ~Truthy(exception_codes) THEN Pair("error", NoKey)
    ELSE LET codes == exception_codes IN
      CASE codes.t = "entry" ->
              IF codes.exception_code.t = "list"
              THEN LET first == Subscript0(codes.exception_code)
                   IN  IF first.err # "" THEN Raise(first.err)
                       ELSE Pair(override_or_return_code(StrOfCode(first.v)), KeyList(codes.parsed_keys))
              ELSE Pair(override_or_return_code(StrOfCode(codes.exception_code)), KeyList(codes.parsed_keys))
        [] codes.t = "leaf" -> Pair(codes.code, NoKey)
        [] codes.t = "map" ->
              LET key == codes.keys[1]
                  value == codes.vals[1]
              IN  IF value.t = "leaf" THEN Pair(override_or_return_code(value.code), OneKey(key))
                  ELSE LET first == Subscript0(value)
                       IN  IF first.err # "" THEN Raise(first.err)
                           ELSE Pair(override_or_return_code(StrOfCode(first.v)), OneKey(key))
        [] codes.t = "list" -> Pair(override_or_return_code(StrOfCode(codes.vals[1])), NoKey)

\* value[key] for one step of the walk of _get_detail
Subscript(value, key) ==
    CASE value.t = "map" ->
            IF HasKey(value, key) THEN [err |-> "", v |-> ValueAt(value, key)]
            ELSE [err |-> "KeyError", v |-> NoneNode]
      [] value.t = "list" ->
            IF ~key.int THEN [err |-> "TypeError", v |-> NoneNode]
            ELSE IF key.n + 1 \in 1..Len(value.vals) THEN [err |-> "", v |-> value.vals[key.n + 1]]
            ELSE [err |-> "IndexError", v |-> NoneNode]
      [] value.t = "leaf" ->
            IF ~key.int THEN [err |-> "TypeError", v |-> NoneNode]
            ELSE IF key.n + 1 \in 1..Len(value.msg) THEN [err |-> "", v |-> Leaf("", <<value.msg[key.n + 1]>>)]
            ELSE [err |-> "IndexError", v |-> NoneNode]
      [] OTHER -> [err |-> "TypeError", v |-> NoneNode]

RECURSIVE Walk(_, _)
Walk(value, keys) ==
    IF keys = <<>> THEN [err |-> "", v |-> value]
    ELSE LET step == Subscript(value, Head(keys))
         IN  IF step.err # "" THEN step ELSE Walk(step.v, Tail(keys))

Text(t) == [err |-> "", text |-> t]
RaiseText(e) == [err |-> e, text |-> <<>>]

\* _get_detail with exception_field naming the attribute read (detail or fa_detail)
_get_detail(field_value, field_name, exception_key) ==
    CASE field_value.t = "leaf" -> Text(field_value.msg)
      [] field_value.t = "map" ->
            LET path == IF exception_key.kind = "list" THEN exception_key.keys
                        ELSE IF exception_key.kind = "key" /\ ~exception_key.keys[1].int
                             THEN exception_key.keys
                        ELSE <<>>
                walked == Walk(field_value, path)
            IN  IF walked.err # "" THEN RaiseText(walked.err)
                ELSE IF walked.v.t = "map"
                     THEN IF HasKey(walked.v, StrKey(field_name))
                          THEN Text(StrOfDetail(ValueAt(walked.v, StrKey(field_name))))
                          ELSE Text(<<>>)
                ELSE IF walked.v.t = "leaf" THEN Text(walked.v.msg)
                ELSE LET first == Subscript0(walked.v)
                     IN  IF first.err # "" THEN RaiseText(first.err)
                         ELSE Text(StrOfDetail(first.v))
      [] field_value.t = "list" /\ Len(field_value.vals) > 0 -> Text(StrOfDetail(field_value.vals[1]))
      [] OTHER -> Text(DEFAULT_ERROR_DETAIL)

\* override_or_return of _get_attr
override_or_return_key(final_key) ==
    IF ~final_key.some THEN None
    ELSE IF ~final_key.isint /\ final_key.v = ALL_KEY THEN None
    ELSE IF ~final_key.isint /\ final_key.v = NON_FIELD_ERRORS_KEY THEN None
    ELSE IF final_key.isint THEN final_key
    ELSE IF final_key.v # <<>> THEN final_key ELSE None

KeyText(k) == IF k.int THEN IntToText(k.n) ELSE k.s

_get_attr(exception_key, separator) ==
    CASE exception_key.kind = "list" ->
            override_or_return_key(
                Some(Join(separator, [i \in 1..Len(exception_key.keys) |-> KeyText(exception_key.keys[i])])))
      [] exception_key.kind = "key" ->
            LET k == exception_key.keys[1]
            IN  IF k.int THEN (IF k.n = 0 THEN None ELSE SomeInt(k.n))
                ELSE override_or_return_key(Some(k.s))
      [] OTHER -> override_or_return_key(None)

\* class ErrorTypes(Enum): member name -> value
ErrorTypes ==
    [authentication_error |-> "authentication_error", invalid_request |-> "invalid_request",
     server_error |-> "server_error", throttled_error |-> "throttled_error",
     validation_error |-> "validation_error", multiple_exceptions |-> "multiple",
     single_exceptions |-> "single"]

\* attribute values: a str, an Enum member or None
StrValue(v) == [kind |-> "str", v |-> v]
EnumValue(name) == [kind |-> "enum", v |-> name]
NoneValue == [kind |-> "none", v |-> ""]
NoAttr == [has |-> FALSE, val |-> NoneValue]
Attr(val) == [has |-> TRUE, val |-> val]

\* utils.ensure_string: the value of an Enum member, else force_str of the value
ensure_string(return_value) ==
    IF return_value.kind = "enum" THEN ErrorTypes[return_value.v]
    ELSE IF return_value.kind = "none" THEN "None"
    ELSE return_value.v

\* _get_error_type with the class-level default_type consulted before the
\* instance-level exception_type
get_error_type_default_first(e) ==
    IF e.default_type.has THEN e.default_type.val
    ELSE IF e.exception_type.has THEN e.exception_type.val
    ELSE IF e.cls \in {"AuthenticationFailed", "NotAuthenticated", "PermissionDenied"}
         THEN EnumValue("authentication_error")
    ELSE IF e.cls \in {"MethodNotAllowed", "NotAcceptable", "NotFound", "ParseError", "UnsupportedMediaType"}
         THEN EnumValue("invalid_request")
    ELSE IF e.cls = "Throttled" THEN EnumValue("throttled_error")
    ELSE IF e.cls \in {"ValidationError", "CustomValidationError"} THEN EnumValue("validation_error")
    ELSE EnumValue("server_error")

\* the undecorated body of _get_error_type
get_error_type_body(e) ==
    IF e.exception_type.has THEN e.exception_type.val
    ELSE IF e.default_type.has THEN e.default_type.val
    ELSE IF e.cls = "AuthenticationFailed" THEN EnumValue("authentication_error")
    ELSE IF e.cls = "MethodNotAllowed" THEN EnumValue("invalid_request")
    ELSE IF e.cls = "NotAcceptable" THEN EnumValue("invalid_request")
    ELSE IF e.cls = "NotAuthenticated" THEN EnumValue("authentication_error")
    ELSE IF e.cls = "NotFound" THEN EnumValue("invalid_request")
    ELSE IF e.cls = "ParseError" THEN EnumValue("invalid_request")
    ELSE IF e.cls = "PermissionDenied" THEN EnumValue("authentication_error")
    ELSE IF e.cls = "Throttled" THEN EnumValue("throttled_error")
    ELSE IF e.cls = "UnsupportedMediaType" THEN EnumValue("invalid_request")
    ELSE IF e.cls = "ValidationError" THEN EnumValue("validation_error")
    ELSE IF e.cls = "CustomValidationError" THEN EnumValue("validation_error")
    ELSE EnumValue("server_error")

_get_error_type(e) == ensure_string(get_error_type_body(e))

\* exc.status_code where the class defines one
HasStatusCode(cls) == IsAPIException(cls) \/ cls = "ProtectedObjectException"
StatusCodeOf(cls) ==
    CASE cls \in {"AuthenticationFailed", "NotAuthenticated"} -> 401
      [] cls = "MethodNotAllowed" -> 405
      [] cls = "NotAcceptable" -> 406
      [] cls = "NotFound" -> 404
      [] cls \in {"ParseError", "ValidationError", "CustomValidationError"} -> 400
      [] cls = "PermissionDenied" -> 403
      [] cls = "Throttled" -> 429
      [] cls = "UnsupportedMediaType" -> 415
      [] cls = "ProtectedObjectException" -> 409
      [] OTHER -> 500

\* a variant that answers 400 for a failure without a status code
get_http_status_client_default(e) == IF HasStatusCode(e.cls) THEN StatusCodeOf(e.cls) ELSE 400

_get_http_status(e) == IF HasStatusCode(e.cls) THEN StatusCodeOf(e.cls) ELSE 500

----------------------------------------------------------------------------
(* utils.py, exceptions.py: the locale switch around a gettext lookup *)

\* the texts the "fa" catalogue translates; every other text comes back unchanged
Catalogue == {MSG_invalid, MSG_required, MSG_unique, password, email}
gettext(lang, text) == IF lang = "fa" /\ text \in Catalogue THEN <<"fa:">> \o text ELSE text

\* translate_text; `fails` is whether the lookup raises
translate_text(text, active, fails) ==
    LET current_language == active
        activated == "fa"
    IN  IF fails THEN [err |-> "LookupError", data |-> <<>>, language |-> activated]
        ELSE [err |-> "", data |-> gettext(activated, text), language |-> current_language]

\* _get_error_details(data, translate=True) on a tree whose lookups succeed
RECURSIVE translated_details(_)
translated_details(data) ==
    CASE data.t = "list" -> List([i \in 1..Len(data.vals) |-> translated_details(data.vals[i])])
      [] data.t = "map" -> Map(data.keys, [i \in 1..Len(data.vals) |-> translated_details(data.vals[i])])
      [] data.t = "leaf" -> Leaf(data.code, gettext("fa", data.msg))
      [] OTHER -> data

RECURSIVE HasLeaf(_)
HasLeaf(data) ==
    \/ data.t = "leaf"
    \/ \E i \in 1..Len(data.vals) : HasLeaf(data.vals[i])

\* _get_error_details(data, translate=True): lines 89-93 run once per string;
\* `fails` is whether one of the lookups raises
_get_error_details(data, active, fails) ==
    LET current_language == active
        activated == "fa"
    IN  IF ~HasLeaf(data) THEN [err |-> "", data |-> data, language |-> active]
        ELSE IF fails THEN [err |-> "LookupError", data |-> Absent, language |-> activated]
        ELSE [err |-> "", data |-> translated_details(data), language |-> current_language]

----------------------------------------------------------------------------
(* The failures and settings explored *)

Failure(cls, detail, code, exception_type, default_type) ==
    [cls |-> cls, detail |-> detail, fa_detail |-> Absent, code |-> code,
     message |-> IF cls \in PythonClasses THEN MSG_custom ELSE <<>>,
     default_code |-> IF cls = "ProtectedObjectException" THEN "protected_error" ELSE "",
     exception_type |-> exception_type,
     default_type |-> IF cls = "ProtectedObjectException" THEN Attr(StrValue("invalid_request"))
                      ELSE default_type]

Leaves == {Leaf("invalid", MSG_invalid), Leaf("required", MSG_required), Leaf("unique", MSG_unique)}
SeqsUpTo(S, n) == UNION {[1..k -> S] : k \in 0..n}
LeafLists == {List(s) : s \in SeqsUpTo(Leaves, MaxLen)}
Keys == {StrKey(password), StrKey(ALL_KEY), IntKey(0)}

\* dicts of depth 1: {}, {k: v} and {k: v, "email": "required"}, where v is an
\* ErrorDetail or a list of them
FlatMaps ==
    LET values == Leaves \cup LeafLists
    IN  {Map(<<>>, <<>>)}
        \cup {Map(<<k>>, <<v>>) : k \in Keys, v \in values}
        \cup {Map(<<k, StrKey(email)>>, <<v, Leaf("required", MSG_required)>>) : k \in Keys, v \in values}

\* dicts nested to depth d: a dict one level shallower under "form", bare or as
\* the only element of a list, with or without a sibling field
RECURSIVE Maps(_)
Maps(d) ==
    IF d = 1 THEN FlatMaps
    ELSE LET inner == Maps(d - 1)
         IN  FlatMaps
             \cup {Map(<<StrKey(form)>>, <<m>>) : m \in inner}
             \cup {Map(<<StrKey(form)>>, <<List(<<m>>)>>) : m \in inner}
             \cup {Map(<<StrKey(form), StrKey(email)>>, <<m, Leaf("required", MSG_required)>>) : m \in inner}

ValidationTrees == LeafLists \cup Maps(MaxDepth) \cup {List(<<m>>) : m \in Maps(1)}

DjangoTrees ==
    {List(<<l>>) : l \in Leaves}
    \cup {Map(<<k>>, <<List(<<l>>)>>) : k \in {StrKey(password), StrKey(ALL_KEY)}, l \in Leaves}

ExceptionTypes == {NoAttr, Attr(StrValue("custom_type")), Attr(EnumValue("multiple_exceptions")), Attr(NoneValue)}
DefaultTypes == {NoAttr, Attr(StrValue("class_type"))}

Failures ==
    {Failure(c, d, "", NoAttr, NoAttr) : c \in {"ValidationError", "CustomValidationError"}, d \in ValidationTrees}
    \cup {Failure("DjangoValidationError", d, "", NoAttr, NoAttr) : d \in DjangoTrees}
    \cup {Failure(c, Leaf(k, m), "", et, dt) :
            c \in DRFClasses \ {"ValidationError"}, k \in {"invalid", "error"},
            m \in {MSG_custom, MSG_unique_short},
            et \in ExceptionTypes, dt \in DefaultTypes}
    \cup {Failure("ProtectedObjectException", Leaf("", m), k, et, NoAttr) :
            m \in {MSG_protected, MSG_custom}, k \in {"", "invalid"}, et \in ExceptionTypes}
    \cup {Failure("Exception", Absent, "", et, dt) : et \in ExceptionTypes, dt \in DefaultTypes}
    \cup {Failure(c, Absent, "", NoAttr, NoAttr) : c \in {"Http404", "DjangoPermissionDenied", "ProtectedError"}}

Settings ==
    [DEBUG : BOOLEAN, ENABLE_IN_DEBUG : BOOLEAN, FARSI_EXCEPTION : BOOLEAN,
     NESTED_KEY_SEPARATOR : {DUNDER, DOT}]

\* the locale active when the failure is raised
Languages == {"en", "de"}

----------------------------------------------------------------------------
(* State *)

NoFrame ==
    [exception_code |-> "", exception_key |-> NoKey, attr |-> None, detail |-> <<>>,
     translated_attr |-> None]

Envelope(type, code, detail, attr, farsi, fa_attr, fa_details) ==
    [type |-> type, code |-> code, detail |-> detail, attr |-> attr, farsi |-> farsi,
     fa_attr |-> fa_attr, fa_details |-> fa_details]
NoEnvelope == Envelope("", "", <<>>, None, FALSE, None, <<>>)

Pending == [kind |-> "pending", err |-> "", data |-> NoEnvelope, status |-> 0]
ReturnedNone == [kind |-> "none", err |-> "", data |-> NoEnvelope, status |-> 0]
Raised(e) == [kind |-> "raised", err |-> e, data |-> NoEnvelope, status |-> 0]
Response(data, status) == [kind |-> "response", err |-> "", data |-> data, status |-> status]

Init ==
    /\ settings \in Settings
    /\ language \in Languages
    /\ exc \in Failures
    /\ raised = exc
    /\ pc = IF exc.cls = "CustomValidationError" THEN "construct" ELSE "handle"
    /\ exception_list = <<>>
    /\ frame = NoFrame
    /\ hook_calls = 0
    /\ hook_failed = FALSE
    /\ lookup_failed = FALSE
    /\ entry_language = language
    /\ signal_sent = FALSE
    /\ result = Pending

----------------------------------------------------------------------------
(* exceptions.py: CustomValidationError.__init__, line 162 *)

Construct ==
    /\ pc = "construct"
    /\ \E fails \in BOOLEAN :
         LET built == _get_error_details(exc.detail, language, fails)
         IN  /\ fails => HasLeaf(exc.detail)
             /\ language' = built.language
             /\ lookup_failed' = (built.err # "")
             /\ exc' = [exc EXCEPT !.fa_detail = built.data]
             /\ pc' = IF built.err # "" THEN "aborted" ELSE "handle"
    /\ raised' = exc'
    /\ UNCHANGED <<settings, exception_list, frame, hook_calls, hook_failed, entry_language,
                   signal_sent, result>>

----------------------------------------------------------------------------
(* handler.py: exception_handler *)

\* rest_framework as_serializer_error of a django ValidationError: an error_dict
\* as it is, an error_list under the non-field-errors key
as_serializer_error(detail) ==
    IF detail.t = "map" THEN detail
    ELSE Map(<<StrKey(NON_FIELD_ERRORS_KEY)>>, <<detail>>)

\* lines 252-262
convert_base_exception(e) ==
    CASE e.cls = "Http404" -> Failure("NotFound", Leaf("not_found", MSG_not_found), "", NoAttr, NoAttr)
      [] e.cls = "DjangoPermissionDenied" ->
            Failure("PermissionDenied", Leaf("permission_denied", MSG_denied), "", NoAttr, NoAttr)
      [] e.cls = "ProtectedError" ->
            Failure("ProtectedObjectException", Leaf("", MSG_protected), "", NoAttr, NoAttr)
      [] e.cls = "DjangoValidationError" ->
            Failure("ValidationError", as_serializer_error(e.detail), "", NoAttr, NoAttr)
      [] OTHER -> e

\* lines 264-268
debug_passthrough(s, e) == s.DEBUG /\ ~s.ENABLE_IN_DEBUG /\ ~IsAPIException(e.cls)

\* lines 281-290
raw_exception_list(e) ==
    IF IsDRFValidationError(e.cls)
    THEN LET codes == get_codes(e)
         IN  IF codes.t = "list" THEN <<codes>> ELSE _normalize_exception_codes(codes, <<>>)
    ELSE IF HasGetCodes(e.cls) THEN <<get_codes(e)>>
    ELSE <<NoneNode>>

\* line 292: the first element that raises ends the comprehension
main_exception_list(raw) ==
    LET pairs == [i \in 1..Len(raw) |-> _get_main_exception_and_code(raw[i])]
        bad == {i \in 1..Len(raw) : pairs[i].err # ""}
    IN  IF bad = {} THEN [err |-> "", list |-> pairs]
        ELSE [err |-> pairs[CHOOSE i \in bad : \A j \in bad : i <= j].err, list |-> <<>>]

\* lines 250-292
Handle ==
    /\ pc = "handle"
    /\ LET e == convert_base_exception(exc)
           computed == main_exception_list(raw_exception_list(e))
       IN  /\ exc' = e
           /\ IF debug_passthrough(settings, e)
              THEN /\ signal_sent' = TRUE
                   /\ result' = ReturnedNone
                   /\ pc' = "done"
                   /\ UNCHANGED exception_list
              ELSE IF computed.err # ""
              THEN /\ result' = Raised(computed.err)
                   /\ pc' = "done"
                   /\ UNCHANGED <<exception_list, signal_sent>>
              ELSE /\ exception_list' = computed.list
                   /\ pc' = "report"
                   /\ UNCHANGED <<result, signal_sent>>
    /\ UNCHANGED <<settings, language, raised, frame, hook_calls, hook_failed, lookup_failed,
                   entry_language>>

\* line 294: the configured EXCEPTION_REPORTING is called; it returns or raises
Report ==
    /\ pc = "report"
    /\ hook_calls' = hook_calls + 1
    /\ \E fails \in BOOLEAN :
         /\ hook_failed' = fails
         /\ IF fails
            THEN result' = Raised("HookError") /\ pc' = "done"
            ELSE UNCHANGED result /\ pc' = "assemble"
    /\ UNCHANGED <<settings, language, exc, raised, exception_list, frame, lookup_failed,
                   entry_language, signal_sent>>

\* lines 299-301: attr taken from the text of a unique-together message
\* a variant that takes the second token, counting from one as from zero
unique_set_attr_second_token(text) ==
    LET tokens == Split(text, SPACE)
    IN  IF Len(tokens) < 3 THEN [err |-> "IndexError", attr |-> None]
        ELSE [err |-> "", attr |-> Some(SubSeq(tokens[2], 1, Len(tokens[2]) - 1))]

unique_set_attr(text) ==
    LET tokens == Split(text, SPACE)
    IN  IF Len(tokens) < 3 THEN [err |-> "IndexError", attr |-> None]
        ELSE [err |-> "", attr |-> Some(SubSeq(tokens[3], 1, Len(tokens[3]) - 1))]

\* lines 297-303
locals(e, list, s) ==
    IF list = <<>> THEN [err |-> "IndexError", frame |-> NoFrame]
    ELSE LET exception_code == list[1].code
             exception_key == list[1].key
             derived == _get_attr(exception_key, s.NESTED_KEY_SEPARATOR)
             detail == _get_detail(e.detail, DETAIL_FIELD, exception_key)
             recovered == IF derived.some \/ detail.err # "" \/ ~Contains(detail.text, UNIQUE_SET_PHRASE)
                          THEN [err |-> "", attr |-> derived]
                          ELSE unique_set_attr(detail.text)
         IN  IF detail.err # "" THEN [err |-> detail.err, frame |-> NoFrame]
             ELSE IF recovered.err # "" THEN [err |-> recovered.err, frame |-> NoFrame]
             ELSE [err |-> "",
                   frame |-> [exception_code |-> exception_code, exception_key |-> exception_key,
                              attr |-> recovered.attr, detail |-> detail.text,
                              translated_attr |-> None]]

\* lines 296-303, and lines 317-324 when FARSI_EXCEPTION is off
Assemble ==
    /\ pc = "assemble"
    /\ LET got == locals(exc, exception_list, settings)
       IN  IF got.err # ""
           THEN /\ result' = Raised(got.err)
                /\ pc' = "done"
                /\ UNCHANGED frame
           ELSE /\ frame' = got.frame
                /\ IF settings.FARSI_EXCEPTION
                   THEN pc' = "fa_attr" /\ UNCHANGED result
                   ELSE /\ pc' = "done"
                        /\ result' = Response(
                               Envelope(_get_error_type(exc), got.frame.exception_code,
                                        got.frame.detail, got.frame.attr, FALSE, None, <<>>),
                               _get_http_status(exc))
    /\ UNCHANGED <<settings, language, exc, raised, exception_list, hook_calls, hook_failed,
                   lookup_failed, entry_language, signal_sent>>

\* bool(attr)
AttrTruthy(attr) == attr.some /\ (attr.isint \/ attr.v # <<>>)

\* attr.split("__")[-1]
last_segment(attr) == LET parts == Split(attr.v, DUNDER) IN parts[Len(parts)]

\* lines 305-307
TranslateAttr ==
    /\ pc = "fa_attr"
    /\ IF ~AttrTruthy(frame.attr)
       THEN /\ pc' = "fa_detail"
            /\ UNCHANGED <<frame, language, lookup_failed, result>>
       ELSE IF frame.attr.isint
       THEN /\ result' = Raised("AttributeError")
            /\ pc' = "done"
            /\ UNCHANGED <<frame, language, lookup_failed>>
       ELSE \E fails \in BOOLEAN :
              LET got == translate_text(last_segment(frame.attr), language, fails)
              IN  /\ language' = got.language
                  /\ lookup_failed' = (lookup_failed \/ got.err # "")
                  /\ IF got.err # ""
                     THEN result' = Raised(got.err) /\ pc' = "done" /\ UNCHANGED frame
                     ELSE /\ frame' = [frame EXCEPT !.translated_attr = Some(got.data)]
                          /\ pc' = "fa_detail"
                          /\ UNCHANGED result
    /\ UNCHANGED <<settings, exc, raised, exception_list, hook_calls, hook_failed,
                   entry_language, signal_sent>>

\* _get_farsi_detail; `fails` is whether the lookup of translate_text raises
_get_farsi_detail(e, exception_key, detail, active, fails) ==
    IF e.fa_detail.t # "absent"
    THEN LET got == _get_detail(e.fa_detail, FA_DETAIL_FIELD, exception_key)
         IN  [err |-> got.err, data |-> got.text, language |-> active]
    ELSE IF detail # <<>> THEN translate_text(detail, active, fails)
    ELSE [err |-> "", data |-> detail, language |-> active]

\* lines 308-315 and 324
FarsiDetail ==
    /\ pc = "fa_detail"
    /\ \E fails \in BOOLEAN :
         LET got == _get_farsi_detail(exc, frame.exception_key, frame.detail, language, fails)
         IN  /\ fails => (exc.fa_detail.t = "absent" /\ frame.detail # <<>>)
             /\ language' = got.language
             /\ lookup_failed' = (lookup_failed \/ (fails /\ got.err # ""))
             /\ IF got.err # ""
                THEN result' = Raised(got.err)
                ELSE result' = Response(
                         Envelope(_get_error_type(exc), frame.exception_code, frame.detail,
                                  frame.attr, TRUE, frame.translated_attr, got.data),
                         _get_http_status(exc))
    /\ pc' = "done"
    /\ UNCHANGED <<settings, exc, raised, exception_list, frame, hook_calls, hook_failed,
                   entry_language, signal_sent>>

Next == Construct \/ Handle \/ Report \/ Assemble \/ TranslateAttr \/ FarsiDetail

Spec == Init /\ [][Next]_vars

----------------------------------------------------------------------------
(* Vocabulary of the properties *)

\* an ErrorCodeTree: a code, a sequence of codes, or a mapping of keys to ErrorCodeTrees
RECURSIVE IsErrorCodeTree(_)
IsErrorCodeTree(tree) ==
    CASE tree.t = "leaf" -> TRUE
      [] tree.t = "list" -> \A i \in 1..Len(tree.vals) : tree.vals[i].t = "leaf"
      [] tree.t = "map" -> \A i \in 1..Len(tree.vals) : IsErrorCodeTree(tree.vals[i])
      [] OTHER -> FALSE

\* a nested mapping with nothing empty in it
RECURSIVE IsNestedMapping(_)
IsNestedMapping(tree) ==
    /\ tree.t = "map"
    /\ tree.keys # <<>>
    /\ \A i \in 1..Len(tree.vals) :
         LET v == tree.vals[i]
         IN  \/ v.t = "leaf"
             \/ v.t = "list" /\ v.vals # <<>> /\ \A j \in 1..Len(v.vals) : v.vals[j].t = "leaf"
             \/ IsNestedMapping(v)

\* the leaves of a tree in depth-first, insertion order, each with the keys on its path
RECURSIVE LeafPaths(_, _)
LeafPaths(tree, path) ==
    CASE tree.t = "leaf" -> <<[keys |-> path, code |-> tree.code, msg |-> tree.msg]>>
      [] tree.t = "list" ->
            LET acc[i \in 0..Len(tree.vals)] ==
                    IF i = 0 THEN <<>> ELSE acc[i - 1] \o LeafPaths(tree.vals[i], path)
            IN  acc[Len(tree.vals)]
      [] tree.t = "map" ->
            LET acc[i \in 0..Len(tree.vals)] ==
                    IF i = 0 THEN <<>> ELSE acc[i - 1] \o LeafPaths(tree.vals[i], path \o <<tree.keys[i]>>)
            IN  acc[Len(tree.vals)]
      [] OTHER -> <<>>

\* the code tree of the failure in hand, where it has a code accessor
CodeTree == IF HasGetCodes(exc.cls) THEN get_codes(exc) ELSE NoneNode

Remapped(code) == IF code = "invalid" THEN "invalid_input" ELSE code

ValidationClasses == {"ValidationError", "CustomValidationError", "DjangoValidationError"}

\* the handler ran to its end and neither the reporting hook nor a catalogue lookup raised
Finished == pc = "done" /\ ~hook_failed /\ ~lookup_failed

----------------------------------------------------------------------------
(* C1 *)

\* C1: whatever the shape of the code tree (bare code, sequence of codes, flat or
\* nested mapping), the envelope's code is the primary leaf code with "invalid"
\* rewritten to "invalid_input" and every other code unchanged; a bare "invalid"
\* gives code "invalid_input" and attr null.
C1_CodeRemapping ==
    (result.kind = "response" /\ IsErrorCodeTree(CodeTree) /\ LeafPaths(CodeTree, <<>>) # <<>>)
        => /\ result.data.code = Remapped(LeafPaths(CodeTree, <<>>)[1].code)
           /\ (CodeTree = Leaf("invalid", <<>>)
                 => result.data.code = "invalid_input" /\ result.data.attr = None)

----------------------------------------------------------------------------
(* C2 *)

\* C2: for a validation failure the handler returns an envelope whatever the shape
\* of its code tree, and an empty tree gives code "error" and attr null.
C2_NeverRaisesOnShape ==
    (Finished /\ raised.cls \in ValidationClasses)
        => /\ result.kind = "response"
           /\ (~Truthy(CodeTree) => result.data.code = "error" /\ result.data.attr = None)

----------------------------------------------------------------------------
(* C3 *)

\* C3: for a nested mapping code tree the normalizer emits one entry per leaf code,
\* a sequence of n codes counting n, and each entry's parsed_keys is as long as the
\* nesting depth of its leaf.
C3_EntryPerLeafCode ==
    (pc = "report" /\ IsDRFValidationError(exc.cls) /\ IsNestedMapping(CodeTree))
        => LET leaves == LeafPaths(CodeTree, <<>>)
           IN  /\ Len(exception_list) = Len(leaves)
               /\ \A i \in 1..Len(exception_list) :
                    Len(exception_list[i].key.keys) = Len(leaves[i].keys)

----------------------------------------------------------------------------
(* C4 *)

SentinelFree(keys) ==
    \A i \in 1..Len(keys) : keys[i] \notin {StrKey(ALL_KEY), StrKey(NON_FIELD_ERRORS_KEY)}

\* C4: for a validation failure whose code tree is a nested mapping, the envelope's
\* code is the first code of the first leaf in depth-first, insertion order (after
\* the remapping of C1) and attr is the keys on the path to that leaf, integers
\* stringified, joined with the configured separator (paths through a sentinel key
\* are C5's).
C4_PrimarySelection ==
    (Finished /\ raised.cls \in {"ValidationError", "CustomValidationError"}
       /\ IsNestedMapping(CodeTree) /\ SentinelFree(LeafPaths(CodeTree, <<>>)[1].keys))
        => LET first == LeafPaths(CodeTree, <<>>)[1]
           IN  /\ result.kind = "response"
               /\ result.data.code = Remapped(first.code)
               /\ result.data.attr =
                      Some(Join(settings.NESTED_KEY_SEPARATOR,
                                [i \in 1..Len(first.keys) |-> KeyText(first.keys[i])]))

----------------------------------------------------------------------------
(* C5 *)

\* C5: parsed_keys ending in "__all__", at any depth, gives attr null.
C5_AllSuppressed ==
    (frame.exception_key.kind = "list" /\ frame.exception_key.keys # <<>>
       /\ frame.exception_key.keys[Len(frame.exception_key.keys)] = StrKey(ALL_KEY))
        => _get_attr(frame.exception_key, settings.NESTED_KEY_SEPARATOR) = None

----------------------------------------------------------------------------
(* C6 *)

\* C6: when the reporting hook raises, the handler still returns an envelope.
C6_HookFailureHarmless == (pc = "done" /\ hook_failed) => result.kind = "response"

----------------------------------------------------------------------------
(* C7 *)

\* C7: by the time the handler finishes, on every path, the reporting hook has been
\* called exactly once.
C7_HookCalledOnce == pc = "done" => hook_calls = 1

----------------------------------------------------------------------------
(* C8 *)

\* C8: after every call that switches the locale to resolve a text, the active
\* locale is the one that was active before, also when the lookup raised.
C8_LocaleRestored == language = entry_language

----------------------------------------------------------------------------
(* C9 *)

Recognized == DRFClasses \cup LibClasses \cup DjangoClasses

\* C9: the handler returns no envelope only in debug mode with ENABLE_IN_DEBUG off
\* and for a failure that is not of a recognized category; a recognized failure is
\* never passed through.
C9_PassthroughOnlyUnrecognized ==
    result.kind = "none"
        => settings.DEBUG /\ ~settings.ENABLE_IN_DEBUG /\ raised.cls \notin Recognized

----------------------------------------------------------------------------
(* C10 *)

CategoryTable ==
    [AuthenticationFailed |-> "authentication_error", MethodNotAllowed |-> "invalid_request",
     NotAcceptable |-> "invalid_request", NotAuthenticated |-> "authentication_error",
     NotFound |-> "invalid_request", ParseError |-> "invalid_request",
     PermissionDenied |-> "authentication_error", Throttled |-> "throttled_error",
     UnsupportedMediaType |-> "invalid_request", ValidationError |-> "validation_error",
     CustomValidationError |-> "validation_error"]

AsString(val) ==
    CASE val.kind = "enum" -> ErrorTypes[val.v]
      [] val.kind = "none" -> "None"
      [] OTHER -> val.v

\* C10: the type of the envelope is the failure's instance-level exception_type if
\* it has one, else its class-level default_type if it has one, else the table
\* entry of its category, else "server_error"; it is always one string.
C10_TypeResolutionOrder ==
    result.kind = "response"
        => /\ result.data.type \in STRING
           /\ result.data.type =
                IF exc.exception_type.has THEN AsString(exc.exception_type.val)
                ELSE IF exc.default_type.has THEN AsString(exc.default_type.val)
                ELSE IF exc.cls \in DOMAIN CategoryTable THEN CategoryTable[exc.cls]
                ELSE "server_error"

\* an envelope was built for a failure that has both an exception_type and a
\* default_type, and for one that has neither
C10_Witness ==
    /\ result.kind = "response"
    /\ exc.exception_type.has
    /\ exc.default_type.has
    /\ exc.exception_type.val = EnumValue("multiple_exceptions")
    /\ result.data.type = "multiple"

----------------------------------------------------------------------------
(* C11 *)

\* an unrecognized failure with no code accessor, no detail field and no status
\* code, handled outside the debug passthrough
Bare ==
    /\ Finished
    /\ result.kind # "none"
    /\ raised.cls \notin Recognized
    /\ ~HasGetCodes(exc.cls)
    /\ exc.detail.t = "absent"
    /\ ~HasStatusCode(exc.cls)

\* the envelope of every such failure but for its type, and nothing of the
\* failure's own message in it
GenericEnvelope ==
    /\ result.kind = "response"
    /\ result.data.code = "error"
    /\ result.data.detail = DEFAULT_ERROR_DETAIL
    /\ result.data.attr = None
    /\ result.status = 500
    /\ raised.message # <<>>
    /\ ~Contains(result.data.detail, raised.message)
    /\ ~Contains(result.data.fa_details, raised.message)
    /\ result.data.fa_attr = None

\* C11: an unrecognized failure with no code accessor, no detail field and no
\* status code gives an envelope of type "server_error", code "error", detail
\* "A server error occurred." and attr null, with status 500, and none of the
\* failure's own message in it.
C11_UnrecognizedDefaults ==
    Bare => GenericEnvelope /\ result.data.type = "server_error"

\* C11 as amended: the same, for a failure that has no exception_type and no
\* default_type attribute either; with one of them the type is the attribute's
\* and the rest of the envelope is the same.
C11_UntypedDefaults ==
    Bare => /\ GenericEnvelope
            /\ (~exc.exception_type.has /\ ~exc.default_type.has)
                  => result.data.type = "server_error"
            /\ exc.exception_type.has
                  => result.data.type = AsString(exc.exception_type.val)

\* a plain exception with a message and no type attribute got its envelope,
\* secondary-language fields included
C11_Witness ==
    /\ Bare
    /\ ~exc.exception_type.has
    /\ ~exc.default_type.has
    /\ result.kind = "response"
    /\ result.data.farsi
    /\ raised.message = MSG_custom

----------------------------------------------------------------------------
(* C12 *)

\* the last of the segments of attr that the configured separator delimits
LastPathSegment ==
    LET parts == Split(result.data.attr.v, settings.NESTED_KEY_SEPARATOR)
    IN  parts[Len(parts)]

\* C12: the envelope has fa_attr and fa_details exactly when FARSI_EXCEPTION is on;
\* when it is on and attr is a non-empty text, fa_attr is the localization of the
\* last segment of attr, segments being delimited by the configured
\* NESTED_KEY_SEPARATOR, whichever it is.
C12_SecondaryLanguageFields ==
    result.kind = "response"
        => /\ result.data.farsi = settings.FARSI_EXCEPTION
           /\ ~settings.FARSI_EXCEPTION
                 => result.data.fa_attr = None /\ result.data.fa_details = <<>>
           /\ (settings.FARSI_EXCEPTION /\ AttrTruthy(result.data.attr))
                 => result.data.fa_attr = Some(gettext("fa", LastPathSegment))

----------------------------------------------------------------------------
(* C13 *)

\* the handler has worked out attr and detail
Assembled == pc \in {"fa_attr", "fa_detail"} \/ result.kind = "response"

\* what the attribute derivation gave for the primary entry
Derived == _get_attr(frame.exception_key, settings.NESTED_KEY_SEPARATOR)

\* the third space-separated token of the detail, less its last character
ThirdToken ==
    LET token == Split(frame.detail, SPACE)[3]
    IN  SubSeq(token, 1, Len(token) - 1)

\* attr is the recovered token exactly when the derivation gave null and the detail
\* has the phrase, and the derived value otherwise
RecoveryRule ==
    frame.attr = IF Derived = None /\ Contains(frame.detail, UNIQUE_SET_PHRASE)
                 THEN Some(ThirdToken)
                 ELSE Derived

\* C13: attr is recovered from the detail exactly when the derivation gave null and
\* the detail contains "must make a unique set", as its third space-separated
\* token less the trailing character, and is the derived value otherwise; for the
\* detail "fields a, b must make a unique set." the recovered attr is "a".
C13_UniqueSetRecovery ==
    Assembled
        => /\ RecoveryRule
           /\ (Derived = None /\ frame.detail = MSG_unique_short)
                 => frame.attr = Some(<<"a">>)

\* C13 as amended: the same rule; it recovers "a" from the detail "The fields a, b
\* must make a unique set.", and from "fields a, b must make a unique set.", whose
\* third token is "b", it recovers the empty text.
C13_UniqueSetRecoveryThirdToken ==
    Assembled
        => /\ RecoveryRule
           /\ (Derived = None /\ frame.detail = MSG_unique)
                 => frame.attr = Some(<<"a">>)
           /\ (Derived = None /\ frame.detail = MSG_unique_short)
                 => frame.attr = Some(<<>>)

\* an envelope whose attr was recovered from the detail without the article
C13_Witness ==
    /\ result.kind = "response"
    /\ Derived = None
    /\ result.data.detail = MSG_unique_short
    /\ result.data.attr = Some(<<>>)

----------------------------------------------------------------------------
(* C14 *)

\* a mapping, nested to any depth, whose values are non-empty sequences of leaves,
\* non-empty sequences of such mappings, or such mappings
RECURSIVE IsShapedMapping(_)
IsShapedMapping(tree) ==
    /\ tree.t = "map"
    /\ tree.keys # <<>>
    /\ \A i \in 1..Len(tree.vals) :
         LET v == tree.vals[i]
         IN  \/ v.t = "list" /\ v.vals # <<>> /\ \A j \in 1..Len(v.vals) : v.vals[j].t = "leaf"
             \/ v.t = "list" /\ v.vals # <<>> /\ \A j \in 1..Len(v.vals) : IsShapedMapping(v.vals[j])
             \/ IsShapedMapping(v)

\* C14: for a validation failure whose detail is such a mapping, code tree and
\* detail tree having one shape, the envelope's code is the code of a leaf and its
\* detail is the message at that same leaf; the lookup of the detail does not fail
\* and does not end on another leaf.
C14_CodeAndDetailAgree ==
    (Finished /\ IsDRFValidationError(raised.cls) /\ IsShapedMapping(raised.detail))
        => /\ result.kind = "response"
           /\ \E i \in 1..Len(LeafPaths(raised.detail, <<>>)) :
                 LET leaf == LeafPaths(raised.detail, <<>>)[i]
                 IN  /\ result.data.code = Remapped(leaf.code)
                     /\ result.data.detail = leaf.msg
                     /\ leaf.keys = frame.exception_key.keys

----------------------------------------------------------------------------
(* C15 *)

\* the framework ValidationError that carries the tree of the failure in hand
Twin == [raised EXCEPT !.cls = "ValidationError", !.fa_detail = Absent]

\* what the handler works out for it
TwinList == main_exception_list(raw_exception_list(Twin))
TwinLocals == locals(Twin, TwinList.list, settings)

\* C15: a CustomValidationError and a framework ValidationError that carry the same
\* code tree get envelopes with the same type, code and attr; the nested tree of a
\* CustomValidationError is normalized into a joined attribute path.
C15_ClassesHandledAlike ==
    (Finished /\ raised.cls = "CustomValidationError"
       /\ TwinList.err = "" /\ TwinLocals.err = "")
        => /\ result.kind = "response"
           /\ result.data.type = _get_error_type(Twin)
           /\ result.data.code = TwinLocals.frame.exception_code
           /\ result.data.attr = TwinLocals.frame.attr

====
